---- MODULE Spec2Model ----
(***************************************************************************)
(* node-gets: synchronous, buffered line reading from a file descriptor.   *)
(*                                                                         *)
(* src/index.js holds two createGets functions.  Lines 9-96 keep one       *)
(* BUFFER/OFFSET/_chunk per created function ("per-instance").  Lines      *)
(* 110-235 keep one record {buffer, istart, offset} per descriptor in the  *)
(* module-wide GETS_INFO_MAP ("shared-buffer").  Both are modelled here,   *)
(* each call as a run of steps (shift, grow, readSync, scan) that no other *)
(* call may interleave with, because the code is synchronous.              *)
(***************************************************************************)
EXTENDS Integers, Sequences, FiniteSets, TLC

(***************************************************************************)
(* Bounds of the model.                                                    *)
(***************************************************************************)
MaxLen == 4          \* longest input stream
MaxBufSize == 2      \* largest bufsize argument tried (0 takes the fallback)
MaxChunkSize == 2    \* largest chunksize argument tried (0 takes the fallback)
MaxCalls == 6        \* calls of reader functions in one behaviour
MaxReaders == 2      \* reader functions created for one descriptor
ShareLen == 2        \* longest input stream when readers share a descriptor
ShareSize == 1       \* largest bufsize and chunksize tried for sharing readers
ShareCalls == 4      \* calls in one behaviour of sharing readers
TeardownLen == 2     \* longest input stream when buffers are removed
FdLen == 1           \* longest input stream of each of two descriptors
FdCalls == 3         \* calls in one behaviour of readers of two descriptors

(***************************************************************************)
(* Program constants of the shared-buffer createGets.                      *)
(***************************************************************************)
DefaultBufSize == 32768
DefaultChunkSize == 2048

LF == 10             \* 0x0a, the delimiter
ReplacementChar == 65533   \* U+FFFD

\* The bytes streams are made of: "\n", "a", and the two bytes of U+00E9
\* (0xC3 0xA9), which are malformed UTF-8 when they stand alone.
Byte == {10, 97, 195, 169}
Ascii == {10, 97}

RECURSIVE SeqsUpTo(_, _)
SeqsUpTo(S, n) ==
    IF n = 0 THEN {<<>>}
    ELSE LET shorter == SeqsUpTo(S, n - 1)
         IN  shorter \cup {Append(s, b) : s \in {t \in shorter : Len(t) = n - 1}, b \in S}

Min(a, b) == IF a < b THEN a ELSE b

(***************************************************************************)
(* Values a reader function returns or throws.                             *)
(***************************************************************************)
Undefined == [kind |-> "undefined", str |-> <<>>]
Str(s) == [kind |-> "string", str |-> s]
Thrown == [kind |-> "error", str |-> <<>>]

(***************************************************************************)
(* Buffer#toString("utf-8"): the UTF-8 decoder.  A string is the sequence  *)
(* of its code points.  Malformed input never fails: every maximal         *)
(* malformed part becomes U+FFFD.                                          *)
(***************************************************************************)
RECURSIVE Utf8Decode(_, _, _, _, _, _, _)
Utf8Decode(bytes, i, needed, seen, cp, lower, upper) ==
    IF i > Len(bytes)
    THEN IF needed # 0 THEN <<ReplacementChar>> ELSE <<>>
    ELSE LET b == bytes[i] IN
         IF needed = 0
         THEN CASE b <= 127 -> <<b>> \o Utf8Decode(bytes, i + 1, 0, 0, 0, 128, 191)
                [] b >= 194 /\ b <= 223 ->
                     Utf8Decode(bytes, i + 1, 1, 0, b % 32, 128, 191)
                [] b >= 224 /\ b <= 239 ->
                     Utf8Decode(bytes, i + 1, 2, 0, b % 16,
                                IF b = 224 THEN 160 ELSE 128,
                                IF b = 237 THEN 159 ELSE 191)
                [] b >= 240 /\ b <= 244 ->
                     Utf8Decode(bytes, i + 1, 3, 0, b % 8,
                                IF b = 240 THEN 144 ELSE 128,
                                IF b = 244 THEN 143 ELSE 191)
                [] OTHER -> <<ReplacementChar>> \o Utf8Decode(bytes, i + 1, 0, 0, 0, 128, 191)
         ELSE IF b < lower \/ b > upper
              THEN <<ReplacementChar>> \o Utf8Decode(bytes, i, 0, 0, 0, 128, 191)
              ELSE IF seen + 1 = needed
                   THEN <<cp * 64 + (b % 64)>> \o Utf8Decode(bytes, i + 1, 0, 0, 0, 128, 191)
                   ELSE Utf8Decode(bytes, i + 1, needed, seen + 1, cp * 64 + (b % 64), 128, 191)

Decode(bytes) == Utf8Decode(bytes, 1, 0, 0, 0, 128, 191)

(***************************************************************************)
(* Buffers.  A Buffer is its length and the bytes of its written prefix:   *)
(* data[i+1] is the byte at index i.  Buffer.allocUnsafe leaves every byte *)
(* uninitialised, so a fresh buffer has an empty written prefix; the       *)
(* shared-buffer variant only ever reads and copies indices below offset   *)
(* or freshly written by readSync, which lie inside the prefix.            *)
(***************************************************************************)
allocUnsafe(n) == [length |-> n, data |-> <<>>]

\* buf.copyWithin(0, start, end): memmove of [start, end) to index 0.
copyWithin(buf, start, end) ==
    [buf EXCEPT !.data = SubSeq(buf.data, start + 1, end)
                         \o SubSeq(buf.data, end - start + 1, Len(buf.data))]

\* buf.toString(encoding, start, end)
toString(buf, start, end) == Decode(SubSeq(buf.data, start + 1, end))

\* fs.readSync(fd, buf, offset, length) having delivered `bytes` at offset.
written(buf, offset, bytes) ==
    [buf EXCEPT !.data = SubSeq(buf.data, 1, offset) \o bytes
                         \o SubSeq(buf.data, offset + Len(bytes) + 1, Len(buf.data))]

(***************************************************************************)
(* The helper functions of the shared-buffer createGets, as functions of   *)
(* the record G of the descriptor.                                         *)
(***************************************************************************)
RECURSIVE sub2exp(_, _)
sub2exp(i, j) == IF j < i THEN sub2exp(i, 2 * j) ELSE j

DefaultEncoding == "utf-8"
\* The encoding names given to createGets here: the default, and a name
\* Buffer#toString does not know and throws ERR_UNKNOWN_ENCODING for.
Encodings == {"utf-8", "utf-16"}
toStringThrows(encoding) == encoding # "utf-8"

validBufsize(bufsize) == IF bufsize <= 0 THEN DefaultBufSize ELSE bufsize
validChunksize(chunksize) == IF chunksize <= 0 THEN DefaultChunkSize ELSE chunksize

newG(bufsize) ==
    [buffer |-> allocUnsafe(sub2exp(bufsize, 1)), istart |-> 0, offset |-> 0]

\* Mutant: compaction whenever a consumed prefix exists, room or not.
needShift_anyConsumed(g, chunksize) == g.istart # 0

needShift(g, chunksize) ==
    g.offset + chunksize > g.buffer.length /\ g.istart # 0

\* Mutant: the cursors move but the bytes stay where they were.
shift_cursorsOnly(g) ==
    [g EXCEPT !.offset = g.offset - g.istart, !.istart = 0]

\* Mutant: the bytes and offset move but istart is not reset.
shift_keepsIstart(g) ==
    [g EXCEPT !.buffer = copyWithin(g.buffer, g.istart, g.offset),
              !.offset = g.offset - g.istart]

shift(g) ==
    [g EXCEPT !.buffer = copyWithin(g.buffer, g.istart, g.offset),
              !.offset = g.offset - g.istart,
              !.istart = 0]

\* Mutant: room for one byte is taken to be room for a chunk.
needGrow_oneByte(g, chunksize) == g.offset + 1 > g.buffer.length

needGrow(g, chunksize) == g.offset + chunksize > g.buffer.length

\* Mutant: the new buffer is exactly as long as asked for.
resize_exact(g, atleast) ==
    [g EXCEPT !.buffer = [length |-> atleast,
                          data |-> SubSeq(g.buffer.data, 1, g.offset)]]

\* Mutant: the capacity is doubled once, whatever is asked for.
resize_once(g, atleast) ==
    [g EXCEPT !.buffer = [length |-> g.buffer.length * 2,
                          data |-> SubSeq(g.buffer.data, 1, g.offset)]]

resize(g, atleast) ==
    [g EXCEPT !.buffer = [length |-> sub2exp(atleast, g.buffer.length),
                          data |-> SubSeq(g.buffer.data, 1, g.offset)]]

\* Mutant: the last occurrence instead of the first.
find_last(g, item, searchstart, searchend) ==
    LET hits == {i \in searchstart .. searchend - 1 : g.buffer.data[i + 1] = item}
    IN  IF hits = {} THEN -1 ELSE CHOOSE i \in hits : \A k \in hits : k <= i

find(g, item, searchstart, searchend) ==
    LET hits == {i \in searchstart .. searchend - 1 : g.buffer.data[i + 1] = item}
    IN  IF hits = {} THEN -1 ELSE CHOOSE i \in hits : \A k \in hits : i <= k

\* Mutant: the line is cut before the delimiter instead of after it.
string_dropsDelimiter(g, cutidx, bufend) ==
    [line |-> Str(toString(g.buffer, g.istart, cutidx)),
     G |-> [g EXCEPT !.istart = cutidx + 1, !.offset = bufend]]

string(g, cutidx, bufend) ==
    [line |-> Str(toString(g.buffer, g.istart, cutidx + 1)),
     G |-> [g EXCEPT !.istart = cutidx + 1, !.offset = bufend]]

\* Mutant: the cursors are not reset after the last line.
string0_noReset(g) ==
    IF g.istart = g.offset
    THEN [line |-> Undefined, G |-> g]
    ELSE [line |-> Str(toString(g.buffer, g.istart, g.offset)), G |-> g]

\* Mutant: no test for "nothing left": an empty string at the end of stream.
string0_emptyString(g) ==
    [line |-> Str(toString(g.buffer, g.istart, g.offset)),
     G |-> [g EXCEPT !.istart = 0, !.offset = 0]]

string0(g) ==
    IF g.istart = g.offset
    THEN [line |-> Undefined, G |-> g]
    ELSE [line |-> Str(toString(g.buffer, g.istart, g.offset)),
          G |-> [g EXCEPT !.istart = 0, !.offset = 0]]

(***************************************************************************)
(* State.                                                                  *)
(***************************************************************************)
VARIABLES
    input,          \* input[fd]: the whole byte stream of descriptor fd
    pos,            \* pos[fd]: how many of its bytes readSync has delivered
    GETS_INFO_MAP,  \* fd -> index into heap of its record, 0 when absent
    heap,           \* the records {buffer, istart, offset} ever created
    made,           \* made[g]: the (validated) bufsize heap[g] was created with
    asked,          \* the bufsize argument of the latest createGets
    readers,        \* the reader functions created: fd, chunksize, captured G
    pc,             \* "idle", or where the running call stands
    self,           \* the reader whose call is running (0 when idle)
    bufend,         \* the running call's local bufend
    call,           \* the running call so far: physical reads done, pos and
                    \* the unconsumed bytes when it started
    out,            \* what the calls returned, in call order
    BUFFER,         \* per-instance variant: its buffer (<<>> before createGets)
    OFFSET,         \* per-instance variant: where the next bytes are appended
    chunk           \* per-instance variant: _chunk, the bytes of the last read

vars == <<input, pos, GETS_INFO_MAP, heap, made, asked, readers, pc, self, bufend, call, out,
          BUFFER, OFFSET, chunk>>

world == <<input, pos>>
registry == <<GETS_INFO_MAP, heap, made, asked, readers>>
inst == <<BUFFER, OFFSET, chunk>>

G == heap[readers[self].G]
NoCall == [reads |-> 0, start |-> 0, live |-> <<>>]
\* The unconsumed bytes [istart, offset) of a record.
live(g) == SubSeq(g.buffer.data, g.istart + 1, g.offset)
chunksize == readers[self].chunksize

TypeOK ==
    /\ pc \in {"idle", "shift", "grow", "readSync", "scan", "loop"}
    /\ self \in 0 .. Len(readers)
    /\ (pc \in {"idle", "loop"}) = (self = 0)
    /\ \A fd \in DOMAIN input : pos[fd] \in 0 .. Len(input[fd])

Init0(fds, streams) ==
    /\ input \in [fds -> streams]
    /\ pos = [fd \in fds |-> 0]
    /\ GETS_INFO_MAP = [fd \in fds |-> 0]
    /\ heap = <<>>
    /\ made = <<>>
    /\ asked = 0
    /\ readers = <<>>
    /\ pc = "idle"
    /\ self = 0
    /\ bufend = 0
    /\ call = NoCall
    /\ out = <<>>
    /\ BUFFER = <<>>
    /\ OFFSET = 0
    /\ chunk = <<>>

(***************************************************************************)
(* createGets(fd, bufsize, chunksize): lines 122-145.                      *)
(***************************************************************************)
\* Mutant: every reader function gets a record of its own.
createGets_private(fd, bufsize, chunksz, encoding) ==
    /\ pc = "idle"
    /\ heap' = Append(heap, newG(validBufsize(bufsize)))
    /\ made' = Append(made, validBufsize(bufsize))
    /\ GETS_INFO_MAP' = [GETS_INFO_MAP EXCEPT ![fd] = Len(heap) + 1]
    /\ readers' = Append(readers, [fd |-> fd, chunksize |-> validChunksize(chunksz),
                                   encoding |-> encoding, G |-> Len(heap) + 1])
    /\ asked' = bufsize
    /\ UNCHANGED <<world, inst, pc, self, bufend, call, out>>

\* Mutant: a buffer that exists and is smaller than asked for is grown.
createGets_grows(fd, bufsize, chunksz, encoding) ==
    /\ pc = "idle"
    /\ LET bs == validBufsize(bufsize)
           cs == validChunksize(chunksz)
           fresh == GETS_INFO_MAP[fd] = 0
           g == IF fresh THEN Len(heap) + 1 ELSE GETS_INFO_MAP[fd]
       IN  /\ heap' = IF fresh THEN Append(heap, newG(bs))
                      ELSE IF heap[g].buffer.length < bs
                           THEN [heap EXCEPT ![g] = resize(heap[g], bs)]
                           ELSE heap
           /\ made' = IF fresh THEN Append(made, bs) ELSE made
           /\ GETS_INFO_MAP' = [GETS_INFO_MAP EXCEPT ![fd] = g]
           /\ readers' = Append(readers,
                                [fd |-> fd, chunksize |-> cs, encoding |-> encoding, G |-> g])
           /\ asked' = bufsize
    /\ UNCHANGED <<world, inst, pc, self, bufend, call, out>>

\* Mutant: one record for all descriptors, the first one allocated.
createGets_oneRecord(fd, bufsize, chunksz, encoding) ==
    /\ pc = "idle"
    /\ LET bs == validBufsize(bufsize)
           cs == validChunksize(chunksz)
           fresh == heap = <<>>
           g == 1
       IN  /\ heap' = IF fresh THEN Append(heap, newG(bs)) ELSE heap
           /\ made' = IF fresh THEN Append(made, bs) ELSE made
           /\ GETS_INFO_MAP' = [GETS_INFO_MAP EXCEPT ![fd] = g]
           /\ readers' = Append(readers,
                                [fd |-> fd, chunksize |-> cs, encoding |-> encoding, G |-> g])
           /\ asked' = bufsize
    /\ UNCHANGED <<world, inst, pc, self, bufend, call, out>>

createGets(fd, bufsize, chunksz, encoding) ==
    /\ pc = "idle"
    /\ LET bs == validBufsize(bufsize)
           cs == validChunksize(chunksz)
           fresh == GETS_INFO_MAP[fd] = 0
           g == IF fresh THEN Len(heap) + 1 ELSE GETS_INFO_MAP[fd]
       IN  /\ heap' = IF fresh THEN Append(heap, newG(bs)) ELSE heap
           /\ made' = IF fresh THEN Append(made, bs) ELSE made
           /\ GETS_INFO_MAP' = [GETS_INFO_MAP EXCEPT ![fd] = g]
           /\ readers' = Append(readers,
                                [fd |-> fd, chunksize |-> cs, encoding |-> encoding, G |-> g])
           /\ asked' = bufsize
    /\ UNCHANGED <<world, inst, pc, self, bufend, call, out>>

(***************************************************************************)
(* The function createGets returns: lines 220-234.                         *)
(***************************************************************************)
Returns(r, g, line, eof) ==
    /\ heap' = [heap EXCEPT ![readers[r].G] = g]
    /\ out' = Append(out, [reader |-> r, val |-> line, eof |-> eof,
                            stale |-> GETS_INFO_MAP[readers[r].fd] # readers[r].G,
                            reads |-> call.reads])
    /\ pc' = "idle"
    /\ self' = 0
    /\ bufend' = 0
    /\ call' = NoCall

\* Mutant: the unread bytes are not searched; every call enters the loop.
Call_alwaysReads(r) ==
    /\ pc = "idle"
    /\ Len(out) < MaxCalls
    /\ pc' = "shift"
    /\ self' = r
    /\ call' = [reads |-> 0, start |-> pos[readers[r].fd], live |-> live(heap[readers[r].G])]
    /\ UNCHANGED <<heap, bufend, out>>
    /\ UNCHANGED <<world, inst, GETS_INFO_MAP, made, asked, readers>>

\* Lines 221-225: the unread bytes already hold a delimiter, or the loop starts.
Call(r) ==
    /\ pc = "idle"
    /\ Len(out) < MaxCalls
    /\ LET g == heap[readers[r].G]
           cutidx == IF g.istart # g.offset THEN find(g, LF, g.istart, g.offset) ELSE -1
       IN  IF cutidx # -1
           THEN IF toStringThrows(readers[r].encoding)
                THEN Returns(r, g, Thrown, FALSE)
                ELSE LET s == string(g, cutidx, g.offset)
                     IN  Returns(r, s.G, s.line, FALSE)
           ELSE /\ pc' = "shift"
                /\ self' = r
                /\ call' = [reads |-> 0, start |-> pos[readers[r].fd], live |-> live(g)]
                /\ UNCHANGED <<heap, bufend, out>>
    /\ UNCHANGED <<world, inst, GETS_INFO_MAP, made, asked, readers>>

\* _read, lines 159-164: shift the buffer if needed.
Shift ==
    /\ pc = "shift"
    /\ heap' = [heap EXCEPT ![readers[self].G] =
                   IF needShift(G, chunksize) THEN shift(G) ELSE G]
    /\ pc' = "grow"
    /\ UNCHANGED <<world, inst, GETS_INFO_MAP, made, asked, readers, self, bufend, call, out>>

\* _read, lines 165-168: grow the buffer if needed.
Grow ==
    /\ pc = "grow"
    /\ heap' = [heap EXCEPT ![readers[self].G] =
                   IF needGrow(G, chunksize) THEN resize(G, G.offset + chunksize) ELSE G]
    /\ pc' = "readSync"
    /\ UNCHANGED <<world, inst, GETS_INFO_MAP, made, asked, readers, self, bufend, call, out>>

\* _read, lines 169-172: one physical read of up to chunksize bytes.  At the
\* end of the stream it delivers 0 bytes, before that any number from 1 up.
\* fs.readSync refuses a range that does not fit the buffer (ERR_OUT_OF_RANGE).
ReadSync ==
    /\ pc = "readSync"
    /\ IF G.offset + chunksize > G.buffer.length
       THEN /\ Returns(self, G, Thrown, FALSE)
            /\ UNCHANGED pos
       ELSE LET fd == readers[self].fd
                left == Len(input[fd]) - pos[fd]
            IN  \E bytes \in (IF left = 0 THEN {0} ELSE 1 .. Min(chunksize, left)) :
                   /\ heap' = [heap EXCEPT ![readers[self].G].buffer =
                                  written(G.buffer, G.offset,
                                          SubSeq(input[fd], pos[fd] + 1, pos[fd] + bytes))]
                   /\ pos' = [pos EXCEPT ![fd] = pos[fd] + bytes]
                   /\ bufend' = G.offset + bytes
                   /\ pc' = "scan"
                   /\ call' = [call EXCEPT !.reads = @ + 1]
                   /\ UNCHANGED <<self, out>>
    /\ UNCHANGED <<input, inst, GETS_INFO_MAP, made, asked, readers>>

\* Mutant: a read of zero bytes is not taken for the end of the stream.
Scan_ignoresEof ==
    /\ pc = "scan"
    /\ LET cutidx == find(G, LF, G.offset, bufend)
       IN  IF cutidx # -1
           THEN LET s == string(G, cutidx, bufend)
                IN  Returns(self, s.G, s.line, FALSE)
           ELSE /\ heap' = [heap EXCEPT ![readers[self].G].offset = bufend]
                /\ pc' = "shift"
                /\ UNCHANGED <<self, bufend, call, out>>
    /\ UNCHANGED <<world, inst, GETS_INFO_MAP, made, asked, readers>>

\* Lines 229-232: end of stream, a delimiter in the new bytes, or read on.
Scan ==
    /\ pc = "scan"
    /\ IF bufend = G.offset
       THEN IF G.istart # G.offset /\ toStringThrows(readers[self].encoding)
            THEN Returns(self, G, Thrown, TRUE)
            ELSE LET s == string0(G) IN Returns(self, s.G, s.line, TRUE)
       ELSE LET cutidx == find(G, LF, G.offset, bufend)
            IN  IF cutidx # -1
                THEN IF toStringThrows(readers[self].encoding)
                     THEN Returns(self, G, Thrown, FALSE)
                     ELSE LET s == string(G, cutidx, bufend)
                          IN  Returns(self, s.G, s.line, FALSE)
                ELSE /\ heap' = [heap EXCEPT ![readers[self].G].offset = bufend]
                     /\ pc' = "shift"
                     /\ UNCHANGED <<self, bufend, call, out>>
    /\ UNCHANGED <<world, inst, GETS_INFO_MAP, made, asked, readers>>

Step == Shift \/ Grow \/ ReadSync \/ Scan

(***************************************************************************)
(* Spec: one descriptor, one reader function, every byte stream.           *)
(***************************************************************************)
Init == Init0({0}, SeqsUpTo(Byte, MaxLen))

Create1 ==
    /\ readers = <<>>
    /\ \E bufsize \in 0 .. MaxBufSize, chunksz \in 0 .. MaxChunkSize :
          createGets(0, bufsize, chunksz, DefaultEncoding)

CallAny == \E r \in 1 .. Len(readers) : Call(r)

Next ==
    \/ Create1
    \/ CallAny
    \/ Shift
    \/ Grow
    \/ ReadSync
    \/ Scan

Spec == Init /\ [][Next]_vars

(***************************************************************************)
(* SpecShare: one descriptor and up to MaxReaders reader functions for it, *)
(* created at any moment between calls, called in any serial order.        *)
(***************************************************************************)
InitShare == Init0({0}, SeqsUpTo(Ascii, ShareLen))

CreateAny ==
    /\ Len(readers) < MaxReaders
    /\ \E bufsize \in 0 .. ShareSize, chunksz \in 0 .. ShareSize :
          createGets(0, bufsize, chunksz, DefaultEncoding)

CallShare ==
    /\ Len(out) < ShareCalls
    /\ CallAny

NextShare ==
    \/ CreateAny
    \/ CallShare
    \/ Shift
    \/ Grow
    \/ ReadSync
    \/ Scan

SpecShare == InitShare /\ [][NextShare]_vars

(***************************************************************************)
(* SpecLive: one reader of descriptor 0, and a call that has started runs  *)
(* on: the returned function is synchronous code, and readSync comes back  *)
(* with the next piece of the stream or with zero bytes at its end.        *)
(***************************************************************************)
InitLive == Init0({0}, SeqsUpTo(Ascii, MaxLen))

SpecLive == InitLive /\ [][Next]_vars /\ WF_vars(Step)

(***************************************************************************)
(* SpecFds: one reader for each of the two descriptors 0 and 1, each       *)
(* descriptor with a stream of its own.                                    *)
(***************************************************************************)
Fds == {0, 1}

InitFds == Init0(Fds, SeqsUpTo(Ascii, FdLen))

CreateFds ==
    \E fd \in Fds, bufsize \in 0 .. ShareSize, chunksz \in 0 .. ShareSize :
       /\ GETS_INFO_MAP[fd] = 0
       /\ createGets(fd, bufsize, chunksz, DefaultEncoding)

CallFds ==
    /\ Len(out) < FdCalls
    /\ CallAny

NextFds ==
    \/ CreateFds
    \/ CallFds
    \/ Shift
    \/ Grow
    \/ ReadSync
    \/ Scan

SpecFds == InitFds /\ [][NextFds]_vars

(***************************************************************************)
(* SpecDecode: one reader of descriptor 0 created with any of the encoding *)
(* names.                                                                  *)
(***************************************************************************)
InitDecode == Init0({0}, SeqsUpTo(Ascii, MaxLen))

CreateDecode ==
    /\ readers = <<>>
    /\ \E bufsize \in 0 .. MaxBufSize, chunksz \in 0 .. MaxChunkSize, encoding \in Encodings :
          createGets(0, bufsize, chunksz, encoding)

NextDecode ==
    \/ CreateDecode
    \/ CallAny
    \/ Shift
    \/ Grow
    \/ ReadSync
    \/ Scan

SpecDecode == InitDecode /\ [][NextDecode]_vars

(***************************************************************************)
(* SpecFail: one reader of descriptor 0 whose physical reads can fail.     *)
(* fs.readSync throws on an I/O error (EIO, EAGAIN, EBADF); nothing in     *)
(* _read or in the returned function catches it.                           *)
(***************************************************************************)
\* Mutant: a failed read puts offset back where the call found it.
ReadFail_rewinds ==
    /\ pc = "readSync"
    /\ Returns(self, [G EXCEPT !.offset = G.istart + Len(call.live)], Thrown, FALSE)
    /\ UNCHANGED <<world, inst, GETS_INFO_MAP, made, asked, readers>>

ReadFail ==
    /\ pc = "readSync"
    /\ Returns(self, G, Thrown, FALSE)
    /\ UNCHANGED <<world, inst, GETS_INFO_MAP, made, asked, readers>>

InitFail == Init0({0}, SeqsUpTo(Ascii, MaxLen))

NextFail ==
    \/ Create1
    \/ CallAny
    \/ Shift
    \/ Grow
    \/ ReadSync
    \/ ReadFail
    \/ Scan

SpecFail == InitFail /\ [][NextFail]_vars

(***************************************************************************)
(* SpecTeardown: SpecShare with the teardown the specification describes.  *)
(* src/index.js exports createGets only and holds no operation that        *)
(* deletes from GETS_INFO_MAP; removeBuffer is that operation as the       *)
(* specification words it.  The reader functions are those of the code:    *)
(* each keeps the record it captured at line 145.                          *)
(***************************************************************************)
removeBuffer(fd) ==
    /\ pc = "idle"
    /\ GETS_INFO_MAP[fd] # 0
    /\ GETS_INFO_MAP' = [GETS_INFO_MAP EXCEPT ![fd] = 0]
    /\ UNCHANGED <<world, inst, heap, made, asked, readers, pc, self, bufend, call, out>>

RemoveAny == \E fd \in DOMAIN GETS_INFO_MAP : removeBuffer(fd)

InitTeardown == Init0({0}, SeqsUpTo(Ascii, TeardownLen))

NextTeardown ==
    \/ CreateAny
    \/ RemoveAny
    \/ CallShare
    \/ Shift
    \/ Grow
    \/ ReadSync
    \/ Scan

SpecTeardown == InitTeardown /\ [][NextTeardown]_vars

(***************************************************************************)
(* The per-instance createGets, lines 9-96.  BUFFER and _chunk are held    *)
(* byte by byte: Buffer.allocUnsafe gives them arbitrary contents, and     *)
(* _chunk.indexOf and BUFFER.toString can read bytes no read has written.  *)
(***************************************************************************)
\* source.copy(target, targetStart, sourceStart, sourceEnd) throws on these.
copyThrows(source, targetStart, sourceStart, sourceEnd) ==
    \/ targetStart < 0
    \/ sourceStart < 0
    \/ sourceStart > Len(source)
    \/ sourceEnd < 0

\* The target after source.copy(target, targetStart, sourceStart, sourceEnd).
copy(source, target, targetStart, sourceStart, sourceEnd) ==
    IF targetStart >= Len(target) \/ sourceStart >= sourceEnd
    THEN target
    ELSE LET nb == Min(Min(sourceEnd - sourceStart, Len(target) - targetStart),
                       Len(source) - sourceStart)
         IN  [i \in 1 .. Len(target) |->
                 IF i > targetStart /\ i <= targetStart + nb
                 THEN source[sourceStart + i - targetStart]
                 ELSE target[i]]

\* _chunk.indexOf('\n'): the whole of _chunk is searched.
indexOf(buf, item) ==
    LET hits == {i \in 0 .. Len(buf) - 1 : buf[i + 1] = item}
    IN  IF hits = {} THEN -1 ELSE CHOOSE i \in hits : \A k \in hits : i <= k

\* BUFFER.toString(encoding, 0, end)
toString0(buf, end) == Decode(SubSeq(buf, 1, Min(end, Len(buf))))

\* _grow(size), newbuf being what Buffer.allocUnsafe returned.
inst_grow(B, O, newbuf) == copy(B, newbuf, 0, 0, O)

\* _string(index, bytes, offset): the line, and BUFFER and OFFSET after it.
inst_string(B, c, index, bytes, offset) ==
    [line |-> Str(toString0(B, offset + index + 1)),
     BUFFER |-> copy(c, B, 0, index + 1, bytes),
     OFFSET |-> bytes - (index + 1)]

\* _string0()
inst_string0(B, O) ==
    [line |-> Str(toString0(B, O)), BUFFER |-> B, OFFSET |-> 0]

InstReturns(line, eof) ==
    /\ out' = Append(out, [reader |-> 0, val |-> line, eof |-> eof, stale |-> FALSE,
                            reads |-> 0])
    /\ pc' = "idle"

\* createGets(fd, bufsize, chunksize), lines 9-21.
inst_createGets(bufsize, chunksz) ==
    /\ pc = "idle"
    /\ BUFFER = <<>>
    /\ BUFFER' \in [1 .. sub2exp(bufsize, 1) -> Ascii]
    /\ chunk' \in [1 .. sub2exp(chunksz, 1) -> Ascii]
    /\ OFFSET' = 0
    /\ UNCHANGED <<world, registry, pc, self, bufend, call, out>>

\* The returned function, lines 82-86: the bytes left over in BUFFER.
InstCall ==
    /\ pc = "idle"
    /\ BUFFER # <<>>
    /\ Len(out) < MaxCalls
    /\ IF OFFSET # 0
       THEN IF copyThrows(BUFFER, 0, 0, OFFSET)
            THEN /\ InstReturns(Thrown, FALSE)
                 /\ UNCHANGED inst
            ELSE LET c == copy(BUFFER, chunk, 0, 0, OFFSET)
                     bytes == OFFSET
                     index == indexOf(c, LF)
                 IN  IF index # -1
                     THEN LET s == inst_string(BUFFER, c, index, bytes, 0)
                          IN  /\ InstReturns(s.line, FALSE)
                              /\ BUFFER' = s.BUFFER
                              /\ OFFSET' = s.OFFSET
                              /\ chunk' = c
                     ELSE /\ chunk' = c
                          /\ pc' = "loop"
                          /\ UNCHANGED <<BUFFER, OFFSET, out>>
       ELSE /\ pc' = "loop"
            /\ UNCHANGED <<inst, out>>
    /\ UNCHANGED <<world, registry, self, bufend, call>>

\* One turn of the loop, lines 88-94: _read() (grow, readSync into _chunk,
\* copy into BUFFER), then end of stream, a delimiter, or read on.
InstLoop ==
    /\ pc = "loop"
    /\ LET fd == 0
           left == Len(input[fd]) - pos[fd]
           size == OFFSET + Len(chunk)
       IN  \E newbuf \in (IF size > Len(BUFFER)
                          THEN [1 .. sub2exp(size, Len(BUFFER)) -> Ascii]
                          ELSE {<<>>}),
              bytes \in (IF left = 0 THEN {0} ELSE 1 .. Min(Len(chunk), left)) :
              LET B1 == IF size > Len(BUFFER) THEN inst_grow(BUFFER, OFFSET, newbuf)
                                                ELSE BUFFER
                  c == copy(SubSeq(input[fd], pos[fd] + 1, pos[fd] + bytes), chunk,
                            0, 0, bytes)
                  B2 == IF bytes # 0 THEN copy(c, B1, OFFSET, 0, bytes) ELSE B1
                  index == indexOf(c, LF)
              IN  /\ pos' = [pos EXCEPT ![fd] = pos[fd] + bytes]
                  /\ chunk' = c
                  /\ IF bytes = 0
                     THEN LET s == inst_string0(B2, OFFSET)
                          IN  /\ InstReturns(s.line, TRUE)
                              /\ BUFFER' = s.BUFFER
                              /\ OFFSET' = s.OFFSET
                     ELSE IF index # -1
                          THEN LET s == inst_string(B2, c, index, bytes, OFFSET)
                               IN  /\ InstReturns(s.line, FALSE)
                                   /\ BUFFER' = s.BUFFER
                                   /\ OFFSET' = s.OFFSET
                          ELSE /\ BUFFER' = B2
                               /\ OFFSET' = OFFSET + bytes
                               /\ UNCHANGED <<pc, out>>
    /\ UNCHANGED <<input, registry, self, bufend, call>>

(***************************************************************************)
(* SpecInst: one per-instance reader function on descriptor 0.             *)
(***************************************************************************)
InstCreate ==
    \E bufsize \in 0 .. MaxBufSize, chunksz \in 0 .. MaxChunkSize :
       inst_createGets(bufsize, chunksz)

NextInst ==
    \/ InstCreate
    \/ InstCall
    \/ InstLoop

InitInst == Init0({0}, SeqsUpTo(Ascii, MaxLen))

SpecInst == InitInst /\ [][NextInst]_vars

(***************************************************************************)
(* What the claims speak about.                                            *)
(***************************************************************************)
\* The UTF-8 bytes of a string.
Encode1(cp) ==
    IF cp < 128 THEN <<cp>>
    ELSE IF cp < 2048 THEN <<192 + (cp \div 64), 128 + (cp % 64)>>
    ELSE IF cp < 65536
         THEN <<224 + (cp \div 4096), 128 + ((cp \div 64) % 64), 128 + (cp % 64)>>
         ELSE <<240 + (cp \div 262144), 128 + ((cp \div 4096) % 64),
                128 + ((cp \div 64) % 64), 128 + (cp % 64)>>

RECURSIVE Encode(_)
Encode(str) == IF str = <<>> THEN <<>> ELSE Encode1(Head(str)) \o Encode(Tail(str))

\* The strings of a sequence of results, joined in order.
RECURSIVE Concat(_)
Concat(rs) == IF rs = <<>> THEN <<>> ELSE Head(rs).val.str \o Concat(Tail(rs))

IsString(v) == v.kind = "string"
Delimiters(bytes) == Cardinality({i \in 1 .. Len(bytes) : bytes[i] = LF})
EndsWithDelimiter(bytes) == bytes # <<>> /\ bytes[Len(bytes)] = LF
\* The bytes after the last delimiter.
Trailing(bytes) ==
    LET cuts == {i \in 1 .. Len(bytes) : bytes[i] = LF}
        last == IF cuts = {} THEN 0 ELSE CHOOSE i \in cuts : \A k \in cuts : k <= i
    IN  SubSeq(bytes, last + 1, Len(bytes))

Sentinels == {i \in 1 .. Len(out) : out[i].val = Undefined}
FirstSentinel == CHOOSE i \in Sentinels : \A k \in Sentinels : i <= k
\* The results up to the first end-of-stream sentinel.
Lines == SubSeq(out, 1, FirstSentinel - 1)
ExpectedCount(bytes) ==
    IF bytes = <<>> \/ EndsWithDelimiter(bytes)
    THEN Delimiters(bytes) ELSE Delimiters(bytes) + 1

IsPow2(n) == \E k \in 0 .. 20 : 2 ^ k = n

\* The reader that receives the whole stream in one read holds it in its
\* buffer at [0, Len) after that read; these are the lines it cuts from it.
RECURSIVE cutAll(_)
cutAll(g) ==
    IF g.istart = g.offset THEN <<>>
    ELSE LET cutidx == find(g, LF, g.istart, g.offset)
         IN  IF cutidx # -1
             THEN <<string(g, cutidx, g.offset).line>> \o cutAll(string(g, cutidx, g.offset).G)
             ELSE <<string0(g).line>>

OneRead(bytes) ==
    cutAll([buffer |-> [length |-> sub2exp(Len(bytes), 1), data |-> bytes],
            istart |-> 0, offset |-> Len(bytes)])

C2_SameAsOneRead ==
    LET ref == OneRead(input[0])
    IN  \A i \in 1 .. Len(out) :
           out[i].val = IF i <= Len(ref) THEN ref[i] ELSE Undefined

C2_Witness ==
    /\ Sentinels # {}
    /\ Len(Lines) >= 2
    /\ readers[1].chunksize = 1
    /\ made[1] = 1
    /\ heap[1].buffer.length > 2
    /\ Len(input[0]) = MaxLen

(***************************************************************************)
(* C3: when the stream does not end with a delimiter, the first call whose *)
(* physical read returns zero bytes returns the trailing bytes as a line   *)
(* and leaves both cursors 0, and every later call returns the sentinel.   *)
(***************************************************************************)
AtEof == {i \in 1 .. Len(out) : out[i].eof}

C3_TrailingOnce ==
    (input[0] # <<>> /\ ~EndsWithDelimiter(input[0])) =>
        /\ \A i \in AtEof :
              out[i].val = IF \A k \in AtEof : i <= k
                           THEN Str(Decode(Trailing(input[0])))
                           ELSE Undefined
        /\ \A i \in 1 .. Len(out) : \A k \in AtEof : k < i => i \in AtEof
        /\ (AtEof # {} /\ pc = "idle") => (heap[1].istart = 0 /\ heap[1].offset = 0)

C3_Witness ==
    /\ ~EndsWithDelimiter(input[0])
    /\ Delimiters(input[0]) >= 1
    /\ Cardinality(AtEof) >= 3
    /\ pc = "idle"

(***************************************************************************)
(* C4: on an empty input the first call returns the end-of-stream          *)
(* sentinel, not a line and not an empty string.                           *)
(***************************************************************************)
C4_EmptyInput ==
    (input[0] = <<>> /\ Len(out) >= 1) => out[1].val = Undefined

C4_Witness ==
    /\ input[0] = <<>>
    /\ Len(out) >= 1
    /\ out[1].eof

(***************************************************************************)
(* C9: in every state, between calls and after every shift, growth and     *)
(* physical read, 0 <= istart <= offset <= buffer capacity (and the end of *)
(* the bytes just read lies between offset and the capacity).              *)
(***************************************************************************)
C9_CursorOrder ==
    /\ \A g \in 1 .. Len(heap) :
          /\ 0 <= heap[g].istart
          /\ heap[g].istart <= heap[g].offset
          /\ heap[g].offset <= heap[g].buffer.length
    /\ pc = "scan" => (G.offset <= bufend /\ bufend <= G.buffer.length)

C9_Witness ==
    /\ pc = "grow"
    /\ G.istart = 0
    /\ G.offset > 0
    /\ G.offset = G.buffer.length
    /\ Len(out) >= 1

(***************************************************************************)
(* C10: the capacity of a descriptor's buffer is always a power of two     *)
(* that is >= the bufsize the buffer was created with, and no step makes   *)
(* it smaller.                                                             *)
(***************************************************************************)
C10_Capacity ==
    /\ [](\A g \in 1 .. Len(heap) :
             /\ IsPow2(heap[g].buffer.length)
             /\ heap[g].buffer.length >= made[g])
    /\ [][\A g \in 1 .. Len(heap) :
             heap'[g].buffer.length >= heap[g].buffer.length]_vars

C10_Witness ==
    /\ Len(heap) = 1
    /\ made[1] = 2
    /\ heap[1].buffer.length = 4

(***************************************************************************)
(* C6 as stated: creating a reader for a descriptor whose buffer exists    *)
(* and is smaller than the requested bufsize grows that buffer at once to  *)
(* the smallest power of two >= the requested bufsize, keeping the live    *)
(* bytes and the cursors.                                                  *)
(***************************************************************************)
Constructed == Len(readers') = Len(readers) + 1
NewReader == readers'[Len(readers')]
Requested == sub2exp(validBufsize(asked'), 1)

C6_GrowsAtConstruction ==
    [][(Constructed /\ GETS_INFO_MAP[NewReader.fd] # 0) =>
          LET g == GETS_INFO_MAP[NewReader.fd]
          IN  heap[g].buffer.length < Requested =>
                 /\ heap'[g].buffer.length = Requested
                 /\ heap'[g].istart = heap[g].istart
                 /\ heap'[g].offset = heap[g].offset
                 /\ SubSeq(heap'[g].buffer.data, 1, heap[g].offset)
                       = SubSeq(heap[g].buffer.data, 1, heap[g].offset)]_vars

(***************************************************************************)
(* C6 as amended: creating a reader for a descriptor whose buffer exists   *)
(* ignores the requested bufsize: the new reader uses the registered       *)
(* record, whose buffer, capacity and cursors stay as they were.           *)
(***************************************************************************)
C6_BufsizeIgnored ==
    [][(Constructed /\ GETS_INFO_MAP[NewReader.fd] # 0) =>
          /\ NewReader.G = GETS_INFO_MAP[NewReader.fd]
          /\ heap' = heap
          /\ GETS_INFO_MAP' = GETS_INFO_MAP]_vars

C6_Witness ==
    /\ Len(readers) = 2
    /\ heap[1].buffer.length < sub2exp(validBufsize(asked), 1)
    /\ heap[1].istart # 0
    /\ heap[1].istart < heap[1].offset
    /\ Len(out) = 1
    /\ out[1].reader = 1
    /\ pc = "idle"

C5_StaleHandle ==
    \A i \in 1 .. Len(out) : out[i].stale => out[i].val = Thrown

(***************************************************************************)
(* C8: every string the per-instance reader returns is a segment of the    *)
(* input stream that starts where the previous returned string ended: the  *)
(* strings returned so far join to a prefix of the stream.                 *)
(***************************************************************************)
C8_ContiguousSegments ==
    LET text == Concat(out)
    IN  /\ Len(text) <= Len(Decode(input[0]))
        /\ text = SubSeq(Decode(input[0]), 1, Len(text))

(***************************************************************************)
(* C11: a call that starts with unconsumed bytes holding a delimiter       *)
(* returns the bytes [istart, cutidx] for the first delimiter index        *)
(* cutidx, sets istart = cutidx + 1, reads nothing from the descriptor,    *)
(* neither shifts nor grows, and leaves offset and the buffer as they were.*)
(***************************************************************************)
CallStarts == pc = "idle" /\ (pc' = "shift" \/ Len(out') = Len(out) + 1)
DelimitersIn(g) == {i \in g.istart .. g.offset - 1 : g.buffer.data[i + 1] = LF}
FirstDelimiter(g) == CHOOSE i \in DelimitersIn(g) : \A k \in DelimitersIn(g) : i <= k

C11_PendingLine ==
    [][(CallStarts /\ DelimitersIn(heap[1]) # {}) =>
          LET g == heap[1]
              cutidx == FirstDelimiter(g)
          IN  /\ Len(out') = Len(out) + 1
              /\ out'[Len(out')].val =
                     Str(Decode(SubSeq(g.buffer.data, g.istart + 1, cutidx + 1)))
              /\ out'[Len(out')].reads = 0
              /\ pos' = pos
              /\ pc' = "idle"
              /\ heap'[1].istart = cutidx + 1
              /\ heap'[1].offset = g.offset
              /\ heap'[1].buffer = g.buffer]_vars

C11_Witness ==
    /\ pc = "idle"
    /\ Len(out) >= 2
    /\ IsString(out[Len(out)].val)
    /\ out[Len(out)].reads = 0
    /\ 0 < heap[1].istart
    /\ heap[1].istart < heap[1].offset

(***************************************************************************)
(* C12: before a physical read the live bytes are shifted exactly when     *)
(* offset + chunksize > capacity and istart # 0; the shift sets istart to  *)
(* 0 and offset to offset - istart and keeps the sequence of live bytes    *)
(* and the capacity; the buffer is only ever grown with istart = 0.        *)
(***************************************************************************)
C12_Compaction ==
    /\ [][(pc = "shift" /\ pc' = "grow") =>
             LET g == heap[readers[self].G]
                 g2 == heap'[readers[self].G]
             IN  IF g.offset + readers[self].chunksize > g.buffer.length /\ g.istart # 0
                 THEN /\ g2.istart = 0
                      /\ g2.offset = g.offset - g.istart
                      /\ live(g2) = live(g)
                      /\ g2.buffer.length = g.buffer.length
                 ELSE g2 = g]_vars
    /\ [][\A g \in 1 .. Len(heap) :
             heap'[g].buffer.length # heap[g].buffer.length => heap[g].istart = 0]_vars

C12_Witness ==
    /\ pc = "grow"
    /\ call.reads = 0
    /\ call.live # <<>>
    /\ call.live = live(G)
    /\ G.istart = 0
    /\ Len(G.buffer.data) > G.offset
    /\ needGrow(G, chunksize)

(***************************************************************************)
(* C13: a growth step replaces the buffer by one whose capacity is the     *)
(* smallest power-of-two multiple of the old capacity that is >= offset +  *)
(* chunksize, with bytes [0, offset) copied unchanged and both cursors     *)
(* unchanged; a line longer than the bufsize the buffer was created with   *)
(* is returned whole.                                                      *)
(***************************************************************************)
SmallestMultiple(j, i) ==
    LET ms == {j * 2 ^ k : k \in 0 .. 12}
    IN  CHOOSE n \in ms : n >= i /\ \A m \in ms : m >= i => n <= m

C13_Growth ==
    /\ [][(pc = "grow" /\ pc' = "readSync") =>
             LET g == heap[readers[self].G]
                 g2 == heap'[readers[self].G]
                 atleast == g.offset + readers[self].chunksize
             IN  IF atleast > g.buffer.length
                 THEN /\ g2.buffer.length = SmallestMultiple(g.buffer.length, atleast)
                      /\ SubSeq(g2.buffer.data, 1, g.offset) = SubSeq(g.buffer.data, 1, g.offset)
                      /\ g2.istart = g.istart
                      /\ g2.offset = g.offset
                 ELSE g2 = g]_vars
    /\ [](LET ref == OneRead(input[0])
          IN  \A i \in 1 .. Min(Len(out), Len(ref)) :
                 Len(ref[i].str) > made[1] => out[i].val = ref[i])

C13_Witness ==
    /\ pc = "idle"
    /\ Len(heap) = 1
    /\ made[1] = 1
    /\ heap[1].buffer.length = 4
    /\ \E i \in 1 .. Len(out) : IsString(out[i].val) /\ Len(out[i].val.str) = 3

(***************************************************************************)
(* C14: when decoding the bytes of a cut line fails, the call fails and    *)
(* the cursors are left past that line: istart = cutidx + 1 and offset =   *)
(* the end of the bytes read.                                              *)
(***************************************************************************)
C14_CursorsAdvanced ==
    [][(/\ Len(out') = Len(out) + 1
        /\ out'[Len(out')].val = Thrown
        /\ ~out'[Len(out')].eof
        /\ pc \in {"idle", "scan"}) =>
          LET r == out'[Len(out')].reader
              g == heap[readers[r].G]
              end == IF pc = "scan" THEN bufend ELSE g.offset
              cutidx == find(g, LF, IF pc = "scan" THEN g.offset ELSE g.istart, end)
          IN  /\ heap'[readers[r].G].istart = cutidx + 1
              /\ heap'[readers[r].G].offset = end]_vars

(***************************************************************************)
(* C15 as stated: a call whose physical read fails ends with that failure  *)
(* without another physical read, and the unconsumed bytes [istart,        *)
(* offset) are then the same sequence as before the call.                  *)
(***************************************************************************)
ReadFails == pc = "readSync" /\ Len(out') = Len(out) + 1 /\ out'[Len(out')].val = Thrown

C15_SameAsBefore ==
    [][ReadFails =>
          /\ pc' = "idle"
          /\ pos' = pos
          /\ live(heap'[readers[self].G]) = call.live]_vars

(***************************************************************************)
(* C15 as amended: a call whose physical read fails ends with that failure *)
(* without another physical read, and the unconsumed bytes are then those  *)
(* of before the call followed by the bytes the earlier reads of the same  *)
(* call delivered; the calls that do not fail return the lines of the      *)
(* stream in order, none lost and none twice.                              *)
(***************************************************************************)
Successes == SelectSeq(out, LAMBDA e : e.val # Thrown)

C15_NothingLost ==
    /\ [][ReadFails =>
             /\ pc' = "idle"
             /\ pos' = pos
             /\ live(heap'[readers[self].G]) =
                    call.live \o SubSeq(input[0], call.start + 1, pos[0])]_vars
    /\ [](LET ref == OneRead(input[0])
          IN  \A i \in 1 .. Len(Successes) :
                 Successes[i].val = IF i <= Len(ref) THEN ref[i] ELSE Undefined)

C15_Witness ==
    /\ pc = "idle"
    /\ Sentinels # {}
    /\ \E i, k \in 1 .. Len(out) :
          /\ i < k
          /\ out[i].val = Thrown
          /\ out[i].reads >= 1
          /\ IsString(out[k].val)
          /\ Len(out[k].val.str) >= 3

(***************************************************************************)
(* C16: at every physical read offset + chunksize <= capacity, whatever    *)
(* the bufsize and chunksize (chunksize above bufsize, readers of one      *)
(* descriptor with different chunksize); the read ends inside the buffer   *)
(* and leaves the bytes below offset, the live bytes among them, as they   *)
(* were.                                                                   *)
(***************************************************************************)
C16_RoomForChunk ==
    /\ [](pc = "readSync" => G.offset + chunksize <= G.buffer.length)
    /\ [][(pc = "readSync" /\ pc' = "scan") =>
             LET g == heap[readers[self].G]
                 g2 == heap'[readers[self].G]
             IN  /\ bufend' <= g.buffer.length
                 /\ Len(g2.buffer.data) <= g2.buffer.length
                 /\ SubSeq(g2.buffer.data, 1, g.offset) = SubSeq(g.buffer.data, 1, g.offset)
                 /\ live(g2) = live(g)]_vars

C16_Witness ==
    /\ pc = "readSync"
    /\ Len(readers) = 2
    /\ readers[1].chunksize # readers[2].chunksize
    /\ \E r \in 1 .. 2 : readers[r].chunksize > made[1]
    /\ G.istart < G.offset
    /\ G.offset + chunksize = G.buffer.length

(***************************************************************************)
(* C17: whenever the loop is about to read, the unconsumed bytes [istart,  *)
(* offset) hold no delimiter; every string returned before the end of the  *)
(* stream holds exactly one delimiter, as its last character, and the      *)
(* string returned at the end of the stream holds none.                    *)
(***************************************************************************)
C17_OneDelimiter ==
    /\ pc \in {"shift", "grow", "readSync"} => DelimitersIn(G) = {}
    /\ \A i \in 1 .. Len(out) :
          IsString(out[i].val) =>
             IF out[i].eof
             THEN Delimiters(out[i].val.str) = 0
             ELSE /\ Delimiters(out[i].val.str) = 1
                  /\ EndsWithDelimiter(out[i].val.str)

C17_Witness ==
    /\ pc = "readSync"
    /\ call.reads >= 1
    /\ call.live # <<>>
    /\ Len(live(G)) > Len(call.live)
    /\ \E i \in 1 .. Len(out) : IsString(out[i].val) /\ Len(out[i].val.str) >= 2

(***************************************************************************)
(* C18: on a finite stream delivered in non-empty pieces and then zero     *)
(* bytes, every call that has started returns, after at most one physical  *)
(* read per byte left in the stream and one more; a call goes on to        *)
(* another physical read only while the bytes it has read hold no          *)
(* delimiter.                                                              *)
(***************************************************************************)
ReadInCall == SubSeq(input[0], call.start + 1, pos[0])

Acting ==
    IF Constructed THEN NewReader.fd
    ELSE IF self # 0 THEN readers[self].fd
    ELSE IF self' # 0 THEN readers[self'].fd
    ELSE IF Len(out') > Len(out) THEN readers[out'[Len(out')].reader].fd
    ELSE -1

C19_Independent ==
    [][\A b \in DOMAIN input :
          b # Acting =>
             /\ GETS_INFO_MAP'[b] = GETS_INFO_MAP[b]
             /\ pos'[b] = pos[b]
             /\ GETS_INFO_MAP[b] # 0 =>
                   heap'[GETS_INFO_MAP[b]] = heap[GETS_INFO_MAP[b]]]_vars

C19_Witness ==
    /\ pc = "readSync"
    /\ readers[self].fd = 1
    /\ live(G) # <<>>
    /\ GETS_INFO_MAP[0] # 0
    /\ GETS_INFO_MAP[0] # GETS_INFO_MAP[1]
    /\ heap[GETS_INFO_MAP[0]].buffer.length # G.buffer.length
    /\ heap[GETS_INFO_MAP[0]].buffer.data # <<>>
    /\ \E i \in 1 .. Len(out) : readers[out[i].reader].fd = 0 /\ IsString(out[i].val)

(***************************************************************************)
(* C20: in the per-instance reader 0 <= OFFSET <= BUFFER.length holds      *)
(* after any sequence of calls: a delimiter is only ever taken from the    *)
(* bytes the latest read put in _chunk, so OFFSET = bytes - (index + 1)    *)
(* is not negative.                                                        *)
(***************************************************************************)
C20_OffsetInRange ==
    /\ 0 <= OFFSET
    /\ OFFSET <= Len(BUFFER)

====
